---- MODULE Spec2Model ----
(***************************************************************************)
(* Order workflow of the ajebo-tailor backend: create_order, cancel_order, *)
(* update_order (customer-facing manager), admin update_order and admin    *)
(* delete_order, running as concurrent requests against one PostgreSQL     *)
(* database.                                                               *)
(*                                                                         *)
(* Database model.  The committed tables are the variables stock,          *)
(* used_count, orders, order_items and cart_items.  A request that runs    *)
(* inside "async with conn.transaction()" keeps its uncommitted writes in  *)
(* tx[p]; they reach the committed tables in one step at commit and are    *)
(* dropped on rollback.  The isolation level is the server default, READ   *)
(* COMMITTED: every statement reads the committed tables of the moment it  *)
(* runs (plus the transaction's own writes), and an UPDATE of a row waits  *)
(* while another transaction holds an uncommitted write of that row, then  *)
(* applies to the row's latest committed value.                            *)
(*                                                                         *)
(* Money is counted in units of 1/10000 dollar, so that a percentage of a  *)
(* cent amount stays an integer (Decimal arithmetic is exact).             *)
(***************************************************************************)
EXTENDS Integers, Sequences, FiniteSets, TLC

\* ------------------------------------------------------------------ bounds
\* Number of calls the clients make in one behaviour.
MaxCalls == 3
\* Number of order ids (uuid4 values) available.
MaxOrders == 2

\* ------------------------------------------------------------ seed data
None == "none"

Procs == {"r1", "r2"}
Users == {"u1", "u2"}
Roles == {"customer", "designer", "admin"}

Products == {"p1", "p2", "p3"}
\* products.price, products.name, products.is_active and the stock the catalog starts with
Price == [p1 |-> 400000, p2 |-> 600000, p3 |-> 250000]
Name == [p1 |-> "shirt", p2 |-> "suit", p3 |-> "scarf"]
IsActive == [p1 |-> TRUE, p2 |-> TRUE, p3 |-> FALSE]
InitStock == [p1 |-> 2, p2 |-> 1, p3 |-> 5]

\* addresses: a9 is an id that is in no row
AddressIds == {"a1", "a2", "a3", "a9"}
Addresses ==
  [a1 |-> [user_id |-> "u1", country |-> "us"],
   a2 |-> [user_id |-> "u2", country |-> "ca"],
   a3 |-> [user_id |-> "u1", country |-> "ng"]]

\* coupons rows; 0 stands for NULL in min_order_amount, max_discount_amount
\* and usage_limit (the code tests the first two by truthiness)
CouponCodes == {"FIX10", "FIX50", "PCT50", "PCT150", "OLD"}
Coupons ==
  [FIX10  |-> [live |-> TRUE, discount_type |-> "fixed", discount_value |-> 100000,
               min_order_amount |-> 0, max_discount_amount |-> 0, usage_limit |-> 1],
   FIX50  |-> [live |-> TRUE, discount_type |-> "fixed", discount_value |-> 500000,
               min_order_amount |-> 0, max_discount_amount |-> 0, usage_limit |-> 0],
   PCT50  |-> [live |-> TRUE, discount_type |-> "percentage", discount_value |-> 50,
               min_order_amount |-> 600000, max_discount_amount |-> 250000, usage_limit |-> 0],
   PCT150 |-> [live |-> TRUE, discount_type |-> "percentage", discount_value |-> 150,
               min_order_amount |-> 0, max_discount_amount |-> 0, usage_limit |-> 0],
   OLD    |-> [live |-> FALSE, discount_type |-> "fixed", discount_value |-> 100000,
               min_order_amount |-> 0, max_discount_amount |-> 0, usage_limit |-> 0]]

Statuses == {"pending", "confirmed", "processing", "shipped", "delivered",
             "cancelled", "refunded"}

\* --------------------------------------------------------- pure functions
\* Bases below 2 dollars at which subtotal * 0.08 is a decimal tie and the
\* double product rounds to the lower cent.
TaxTiesDown == {1875, 5625, 9375, 13125, 15625, 18125, 19375}

RoundTaxAbs(s) ==
  LET n == s * 8
      q == n \div 10000
      r == n % 10000
  IN  100 * (IF r > 5000 \/ (r = 5000 /\ s \notin TaxTiesDown) THEN q + 1 ELSE q)

\* calculate_tax(subtotal, tax_rate = 0.08): round(float(subtotal) * 0.08, 2)
calculate_tax(s) == IF s < 0 THEN 0 - RoundTaxAbs(0 - s) ELSE RoundTaxAbs(s)

base_rate == 50000
FreeShippingThreshold == 1000000

\* calculate_shipping_cost(subtotal, shipping_address)
calculate_shipping_cost(subtotal, country) ==
  IF subtotal >= FreeShippingThreshold THEN 0
  ELSE IF country \in {"us", "usa", "united states"} THEN base_rate
  ELSE IF country \in {"ca", "canada", "mx", "mexico"} THEN (base_rate * 15) \div 10
  ELSE (base_rate * 25) \div 10

Min(a, b) == IF a <= b THEN a ELSE b

\* Mutant of CouponDiscount: the cap of a percentage coupon is not applied.
CouponDiscountUncapped(c, subtotal) ==
  IF c.discount_type = "percentage"
  THEN (subtotal * c.discount_value) \div 100
  ELSE Min(c.discount_value, subtotal)

\* _apply_coupon, "Calculate discount"
CouponDiscount(c, subtotal) ==
  IF c.discount_type = "percentage"
  THEN LET d == (subtotal * c.discount_value) \div 100
       IN  IF c.max_discount_amount # 0 THEN Min(d, c.max_discount_amount) ELSE d
  ELSE Min(c.discount_value, subtotal)

\* ------------------------------------------------------------- requests
Line(p, q) == [product_id |-> p, quantity |-> q]
OrderCreate(its, ship, bill, code) ==
  [items |-> its, shipping_address_id |-> ship, billing_address_id |-> bill,
   coupon_code |-> code]

\* The OrderCreate payloads the clients send.
Requests ==
  { OrderCreate(<<Line("p1", 1)>>, None, None, None),
    OrderCreate(<<Line("p1", 2)>>, "a1", None, "FIX10"),
    OrderCreate(<<Line("p1", 1), Line("p2", 1)>>, "a1", "a3", "PCT50"),
    OrderCreate(<<Line("p2", 1), Line("p1", 3)>>, None, None, None),
    OrderCreate(<<Line("p1", 1), Line("p3", 1)>>, None, None, None),
    OrderCreate(<<Line("p1", 1)>>, "a2", None, None),
    OrderCreate(<<Line("p1", 1)>>, "a9", None, None),
    OrderCreate(<<Line("p1", 1)>>, "a3", None, "FIX50"),
    OrderCreate(<<Line("p1", 1)>>, "a1", None, "PCT150"),
    OrderCreate(<<Line("p1", 1)>>, None, None, "PCT50"),
    OrderCreate(<<Line("p2", 1)>>, "a1", "a2", "OLD"),
    OrderCreate(<<Line("p2", 1)>>, None, "a2", None),
    OrderCreate(<<Line("p1", 1), Line("p1", 2)>>, None, None, None) }

NoRequest == OrderCreate(<<>>, None, None, None)

\* ------------------------------------------------------------------ state
VARIABLES
  stock,        \* products.stock_quantity, committed
  used_count,   \* coupons.used_count, committed
  orders,       \* orders rows, committed: order id -> row
  order_items,  \* order_items rows, committed: order id -> sequence of rows
  cart_items,   \* cart_items rows, committed
  pc,           \* where each request is in its handler
  call,         \* the arguments of the call each request is running
  loc,          \* the handler's local variables
  tx,           \* the uncommitted writes of the request's transaction
  stmts,        \* the SQL statements the running call has executed, in order
  result,       \* how the request's last call ended
  calls,        \* calls started so far
  sent,         \* the clients' record of the requests answered with an order id
  cart_ids,     \* how many uuid4 values cart rows have been given
  price,        \* products.price, committed (no handler of orders writes it)
  name,         \* products.name, committed
  user_sessions \* user_sessions rows: the refresh tokens stored

vars == <<stock, used_count, orders, order_items, cart_items,
          pc, call, loc, tx, stmts, result, calls, sent, cart_ids,
          price, name, user_sessions>>

OrderIds == 1..MaxOrders

Empty == [x \in {} |-> 0]

NoTx == [stock |-> Empty, used |-> Empty, orders |-> Empty, items |-> Empty,
         cart_del |-> {}]

\* OrderUpdate payloads: None is a field the client left out
OrderUpdate(st, pay, prio, track, note) ==
  [status |-> st, payment_status |-> pay, priority |-> prio,
   tracking_number |-> track, notes |-> note]

NoPatch == OrderUpdate(None, None, None, None, None)

\* The OrderUpdate payloads the clients send.
Patches ==
  { OrderUpdate(st, None, None, None, None) : st \in Statuses }
  \cup { NoPatch,
         OrderUpdate(None, None, None, None, "n1"),
         OrderUpdate("shipped", "paid", "urgent", "T2", "n2") }

\* CartItemCreate payloads: None is a size or color the client left out
CartItemCreate(prod, q, sz, col) ==
  [product_id |-> prod, quantity |-> q, size |-> sz, color |-> col]

NoCartItem == CartItemCreate(None, 0, None, None)

NoCall == [op |-> None, user |-> None, role |-> None, order |-> 0,
           req |-> NoRequest, patch |-> NoPatch, retry |-> FALSE,
           cart_item |-> NoCartItem, item_id |-> 0, quantity |-> 0,
           refresh_token |-> 0]

NoEstimate == [subtotal |-> 0, estimated_tax |-> 0, estimated_shipping |-> 0,
               estimated_total |-> 0]

NoLoc == [order_id |-> 0, i |-> 0, subtotal |-> 0, discount |-> 0,
          items_data |-> <<>>, rows |-> <<>>,
          stock_quantity |-> 0, existing_id |-> 0, new_quantity |-> 0,
          estimate |-> NoEstimate, detail |-> NoPatch, new_jti |-> 0]

InitCart ==
  { [id |-> 1, user_id |-> "u1", product_id |-> "p1", quantity |-> 1,
     size |-> None, color |-> None],
    [id |-> 2, user_id |-> "u2", product_id |-> "p2", quantity |-> 1,
     size |-> "M", color |-> "blue"] }

\* user_sessions rows: the refresh token a login has stored.  login is the
\* row's line of descent: the token_jti of the login it was refreshed from.
InitSessions == { [token_jti |-> 1, is_revoked |-> FALSE, login |-> 1] }

Init ==
  /\ stock = InitStock
  /\ used_count = [c \in CouponCodes |-> 0]
  /\ orders = Empty
  /\ order_items = Empty
  /\ cart_items = InitCart
  /\ pc = [p \in Procs |-> "idle"]
  /\ call = [p \in Procs |-> NoCall]
  /\ loc = [p \in Procs |-> NoLoc]
  /\ tx = [p \in Procs |-> NoTx]
  /\ stmts = [p \in Procs |-> <<>>]
  /\ result = [p \in Procs |-> None]
  /\ calls = 0
  /\ sent = {}
  /\ cart_ids = Cardinality(InitCart)
  /\ price = Price
  /\ name = Name
  /\ user_sessions = InitSessions

\* -------------------------------------------------- transaction plumbing
Override(f, g) ==
  [x \in (DOMAIN f) \cup (DOMAIN g) |-> IF x \in DOMAIN g THEN g[x] ELSE f[x]]

\* What a statement of request p reads: committed rows and p's own writes.
ReadStock(p, prod) ==
  IF prod \in DOMAIN tx[p].stock THEN tx[p].stock[prod] ELSE stock[prod]
ReadUsed(p, c) ==
  IF c \in DOMAIN tx[p].used THEN tx[p].used[c] ELSE used_count[c]
ReadOrders(p) == Override(orders, tx[p].orders)
ReadItems(p) == Override(order_items, tx[p].items)

\* A row is locked for p while another transaction holds an uncommitted
\* write of it.
StockLocked(p, prod) == \E q \in Procs \ {p} : prod \in DOMAIN tx[q].stock
CouponLocked(p, c) == \E q \in Procs \ {p} : c \in DOMAIN tx[q].used
OrderLocked(p, o) == \E q \in Procs \ {p} : o \in DOMAIN tx[q].orders
CartLocked(p, ids) == \E q \in Procs \ {p} : tx[q].cart_del \cap ids # {}

Log(p, s) == stmts' = [stmts EXCEPT ![p] = Append(@, s)]

\* The request's call ends: its locals are dropped and its result is kept.
Return(p, r) ==
  /\ pc' = [pc EXCEPT ![p] = "idle"]
  /\ call' = [call EXCEPT ![p] = NoCall]
  /\ loc' = [loc EXCEPT ![p] = NoLoc]
  /\ tx' = [tx EXCEPT ![p] = NoTx]
  /\ stmts' = [stmts EXCEPT ![p] = <<>>]
  /\ result' = [result EXCEPT ![p] = r]

\* conn.transaction().__aexit__ without an exception: COMMIT.
Commit(p, r) ==
  /\ stock' = Override(stock, tx[p].stock)
  /\ used_count' = Override(used_count, tx[p].used)
  /\ orders' = Override(orders, tx[p].orders)
  /\ order_items' = Override(order_items, tx[p].items)
  /\ cart_items' = {c \in cart_items : c.id \notin tx[p].cart_del}
  /\ Return(p, r)
  /\ sent' = IF call[p].op = "create_order"
             THEN sent \cup {[user |-> call[p].user, req |-> call[p].req]}
             ELSE sent
  /\ UNCHANGED <<calls, cart_ids, price, name, user_sessions>>

\* Mutant of Rollback: the writes made before the exception stay.
RollbackKeepsWrites(p, err) == Commit(p, err)

\* conn.transaction().__aexit__ with an exception: ROLLBACK, then the
\* exception propagates.
Rollback(p, err) ==
  /\ Return(p, err)
  /\ UNCHANGED <<stock, used_count, orders, order_items, cart_items, calls, sent,
                 cart_ids, price, name, user_sessions>>

\* A step that only moves the handler on.
Goto(p, label) == pc' = [pc EXCEPT ![p] = label]

DbUnchanged ==
  UNCHANGED <<stock, used_count, orders, order_items, cart_items, sent, cart_ids,
               price, name, user_sessions>>

\* A new call is served by the first request slot that is free.
CanStart(p) ==
  /\ pc[p] = "idle"
  /\ calls < MaxCalls
  /\ p = "r1" \/ pc["r1"] # "idle"

\* Mutant of Touched: the UPDATE leaves updated_at as it is.
TouchedNot(row) == row

\* SET ..., updated_at = datetime.utcnow().  A timestamp is counted in the
\* writes the row has had: each utcnow() is later than the one stored.
Touched(row) == [row EXCEPT !.updated_at = @ + 1]

\* ----------------------------------------------------------- create_order
\* uuid.uuid4(): an id no order row and no running request holds
FreshOrderIds ==
  {o \in OrderIds : o \notin DOMAIN orders /\ \A q \in Procs : loc[q].order_id # o}

\* create_order is called: a connection is acquired, BEGIN, and the order id
\* is generated before any statement runs.
CreateBegin(p) ==
  /\ CanStart(p)
  /\ FreshOrderIds # {}
  /\ \E u \in Users, r \in Requests :
       call' = [call EXCEPT ![p] =
                  [NoCall EXCEPT !.op = "create_order", !.user = u, !.req = r,
                                 !.retry = ([user |-> u, req |-> r] \in sent)]]
  /\ loc' = [loc EXCEPT ![p] =
               [NoLoc EXCEPT !.order_id = CHOOSE o \in FreshOrderIds :
                                            \A o2 \in FreshOrderIds : o <= o2]]
  /\ calls' = calls + 1
  /\ result' = [result EXCEPT ![p] = None]
  /\ Goto(p, "co_address")
  /\ UNCHANGED <<tx, stmts>>
  /\ DbUnchanged

\* _get_user_address: the address exists and belongs to the user
UserAddressOk(u, a) == a \in DOMAIN Addresses /\ Addresses[a].user_id = u

\* "Validate addresses": shipping, then billing (defaulting to shipping)
CreateAddresses(p) ==
  /\ pc[p] = "co_address"
  /\ LET r == call[p].req
         bill == IF r.billing_address_id # None THEN r.billing_address_id
                 ELSE r.shipping_address_id
     IN  IF r.shipping_address_id = None
         THEN /\ Goto(p, "co_validate")
              /\ loc' = [loc EXCEPT ![p].i = 1]
              /\ UNCHANGED <<call, tx, stmts, result, calls>>
              /\ DbUnchanged
         ELSE IF UserAddressOk(call[p].user, r.shipping_address_id)
                 /\ UserAddressOk(call[p].user, bill)
         THEN /\ Goto(p, "co_validate")
              /\ loc' = [loc EXCEPT ![p].i = 1]
              /\ Log(p, "select_address")
              /\ UNCHANGED <<call, tx, result, calls>>
              /\ DbUnchanged
         ELSE Rollback(p, "ValidationError")

\* _validate_order_items, one turn of its loop: SELECT the active product,
\* check its stock against this line's quantity, add to the subtotal.
CreateValidateItem(p) ==
  /\ pc[p] = "co_validate"
  /\ LET its == call[p].req.items
         it == its[loc[p].i]
         prod == it.product_id
     IN  IF ~IsActive[prod] \/ ReadStock(p, prod) < it.quantity
         THEN Rollback(p, "ValidationError")
         ELSE /\ loc' = [loc EXCEPT ![p].i = IF @ = Len(its) THEN 1 ELSE @ + 1,
                                    ![p].subtotal = @ + price[prod] * it.quantity,
                                    ![p].items_data =
                                       Append(@, [name |-> name[prod],
                                                  price |-> price[prod]])]
              /\ Goto(p, IF loc[p].i < Len(its) THEN "co_validate"
                         ELSE IF call[p].req.coupon_code # None THEN "co_coupon"
                         ELSE "co_insert_order")
              /\ Log(p, "select_product")
              /\ UNCHANGED <<call, tx, result, calls>>
              /\ DbUnchanged

\* _apply_coupon's SELECT: the coupon row the query returns, if any
CouponFound(p, code) ==
  /\ code \in CouponCodes
  /\ Coupons[code].live
  /\ Coupons[code].usage_limit = 0 \/ ReadUsed(p, code) < Coupons[code].usage_limit

\* _apply_coupon up to the computed discount
CreateCouponSelect(p) ==
  /\ pc[p] = "co_coupon"
  /\ LET code == call[p].req.coupon_code
     IN  IF ~CouponFound(p, code)
         THEN Rollback(p, "ValidationError")
         ELSE IF Coupons[code].min_order_amount # 0
                 /\ loc[p].subtotal < Coupons[code].min_order_amount
         THEN Rollback(p, "ValidationError")
         ELSE /\ loc' = [loc EXCEPT ![p].discount =
                                      CouponDiscount(Coupons[code], loc[p].subtotal)]
              /\ Goto(p, "co_coupon_update")
              /\ Log(p, "select_coupon")
              /\ UNCHANGED <<call, tx, result, calls>>
              /\ DbUnchanged

\* _apply_coupon: UPDATE coupons SET used_count = used_count + 1 WHERE id
CreateCouponUpdate(p) ==
  /\ pc[p] = "co_coupon_update"
  /\ LET code == call[p].req.coupon_code
     IN  /\ ~CouponLocked(p, code)
         /\ tx' = [tx EXCEPT ![p].used = Override(@, [c \in {code} |-> ReadUsed(p, code) + 1])]
  /\ Goto(p, "co_insert_order")
  /\ Log(p, "update_coupon")
  /\ UNCHANGED <<call, loc, result, calls>>
  /\ DbUnchanged

\* Mutant of OrderTotal: the discount is left out of the total.
OrderTotalWithoutDiscount(subtotal, tax_amount, shipping_cost, coupon_discount) ==
  subtotal + tax_amount + shipping_cost

\* total_amount = subtotal + tax_amount + shipping_cost - coupon_discount
OrderTotal(subtotal, tax_amount, shipping_cost, coupon_discount) ==
  subtotal + tax_amount + shipping_cost - coupon_discount

\* "Calculate costs": the order row create_order inserts
OrderRow(u, r, subtotal, discount) ==
  LET tax_amount == calculate_tax(subtotal - discount)
      shipping_cost == IF r.shipping_address_id # None
                       THEN calculate_shipping_cost(subtotal,
                              Addresses[r.shipping_address_id].country)
                       ELSE 0
  IN  [user_id |-> u, status |-> "pending", payment_status |-> "pending",
       priority |-> "medium", tracking_number |-> None, notes |-> None,
       subtotal |-> subtotal, tax_amount |-> tax_amount,
       shipping_amount |-> shipping_cost, discount_amount |-> discount,
       total |-> OrderTotal(subtotal, tax_amount, shipping_cost, discount),
       shipping_address_id |-> r.shipping_address_id,
       billing_address_id |-> r.billing_address_id,
       updated_at |-> 0]

\* Mutant of CreateInsertOrder: the first line's stock is decremented
\* before its order-item row is inserted.
CreateInsertOrderThenStock(p) ==
  /\ pc[p] = "co_insert_order"
  /\ tx' = [tx EXCEPT ![p].orders =
              Override(@, [o \in {loc[p].order_id} |->
                 OrderRow(call[p].user, call[p].req, loc[p].subtotal, loc[p].discount)]),
                      ![p].items = Override(@, [o \in {loc[p].order_id} |-> <<>>])]
  /\ Goto(p, "co_update_stock")
  /\ Log(p, "insert_order")
  /\ UNCHANGED <<call, loc, result, calls>>
  /\ DbUnchanged

\* INSERT INTO orders
CreateInsertOrder(p) ==
  /\ pc[p] = "co_insert_order"
  /\ tx' = [tx EXCEPT ![p].orders =
              Override(@, [o \in {loc[p].order_id} |->
                 OrderRow(call[p].user, call[p].req, loc[p].subtotal, loc[p].discount)]),
                      ![p].items = Override(@, [o \in {loc[p].order_id} |-> <<>>])]
  /\ Goto(p, "co_insert_item")
  /\ Log(p, "insert_order")
  /\ UNCHANGED <<call, loc, result, calls>>
  /\ DbUnchanged

\* Mutant of ItemRow: the row takes the name and the price the catalog has
\* when the row is inserted.
ItemRowFromCatalog(it, product_info) ==
  [product_id |-> it.product_id, product_name |-> name[it.product_id],
   quantity |-> it.quantity, product_price |-> price[it.product_id],
   subtotal |-> price[it.product_id] * it.quantity]

\* the order_items row of one line: unit_price = product_info['price'],
\* total_price = unit_price * item_data.quantity
ItemRow(it, product_info) ==
  [product_id |-> it.product_id, product_name |-> product_info.name,
   quantity |-> it.quantity, product_price |-> product_info.price,
   subtotal |-> product_info.price * it.quantity]

\* INSERT INTO order_items, for the line the loop is at
CreateInsertItem(p) ==
  /\ pc[p] = "co_insert_item"
  /\ LET it == call[p].req.items[loc[p].i]
     IN  tx' = [tx EXCEPT ![p].items[loc[p].order_id] =
                  Append(@, ItemRow(it, loc[p].items_data[loc[p].i]))]
  /\ Goto(p, "co_update_stock")
  /\ Log(p, "insert_item")
  /\ UNCHANGED <<call, loc, result, calls>>
  /\ DbUnchanged

\* UPDATE products SET stock_quantity = stock_quantity - $1 WHERE id = $2
StockAfterOrder(current, quantity) == current - quantity

CreateUpdateStock(p) ==
  /\ pc[p] = "co_update_stock"
  /\ LET its == call[p].req.items
         it == its[loc[p].i]
     IN  /\ ~StockLocked(p, it.product_id)
         /\ tx' = [tx EXCEPT ![p].stock =
                     Override(@, [x \in {it.product_id} |->
                        StockAfterOrder(ReadStock(p, it.product_id), it.quantity)])]
         /\ Goto(p, IF loc[p].i < Len(its) THEN "co_insert_item" ELSE "co_delete_cart")
         /\ loc' = [loc EXCEPT ![p].i = @ + 1]
  /\ Log(p, "update_stock")
  /\ UNCHANGED <<call, result, calls>>
  /\ DbUnchanged

\* Mutant of CreateDeleteCart: only the rows of the ordered products go.
CreateDeleteCartOrdered(p) ==
  /\ pc[p] = "co_delete_cart"
  /\ LET its == call[p].req.items
         ids == {c.id : c \in {x \in cart_items :
                    /\ x.user_id = call[p].user
                    /\ \E i \in 1..Len(its) : its[i].product_id = x.product_id}}
     IN  /\ ~CartLocked(p, ids)
         /\ tx' = [tx EXCEPT ![p].cart_del = ids]
  /\ Goto(p, "co_commit")
  /\ Log(p, "delete_cart")
  /\ UNCHANGED <<call, loc, result, calls>>
  /\ DbUnchanged

\* DELETE FROM cart_items WHERE user_id = $1
CreateDeleteCart(p) ==
  /\ pc[p] = "co_delete_cart"
  /\ LET ids == {c.id : c \in {x \in cart_items : x.user_id = call[p].user}}
     IN  /\ ~CartLocked(p, ids)
         /\ tx' = [tx EXCEPT ![p].cart_del = ids]
  /\ Goto(p, "co_commit")
  /\ Log(p, "delete_cart")
  /\ UNCHANGED <<call, loc, result, calls>>
  /\ DbUnchanged

\* return order_row['id']: the transaction commits
CreateCommit(p) ==
  /\ pc[p] = "co_commit"
  /\ Commit(p, "ok")

\* ----------------------------------------------------------- cancel_order
CancelBegin(p) ==
  /\ CanStart(p)
  /\ \E u \in Users, o \in OrderIds :
       call' = [call EXCEPT ![p] = [NoCall EXCEPT !.op = "cancel_order",
                                                  !.user = u, !.order = o]]
  /\ calls' = calls + 1
  /\ result' = [result EXCEPT ![p] = None]
  /\ Goto(p, "cn_select")
  /\ UNCHANGED <<loc, tx, stmts>>
  /\ DbUnchanged

\* Mutant of Cancellable: an order being processed can be cancelled too.
CancellableWithProcessing == {"pending", "confirmed", "processing"}

\* the statuses cancel_order accepts
Cancellable == {"pending", "confirmed"}

\* SELECT * FROM orders WHERE id = $1 AND user_id = $2, and the two checks
CancelSelect(p) ==
  /\ pc[p] = "cn_select"
  /\ LET o == call[p].order
         rows == ReadOrders(p)
     IN  IF o \notin DOMAIN rows \/ rows[o].user_id # call[p].user
         THEN Rollback(p, "NotFoundError")
         ELSE IF rows[o].status \notin Cancellable
         THEN Rollback(p, "ConflictError")
         ELSE /\ Goto(p, "cn_update")
              /\ Log(p, "select_order")
              /\ UNCHANGED <<call, loc, tx, result, calls>>
              /\ DbUnchanged

\* UPDATE orders SET status = 'cancelled', updated_at = $2 WHERE id = $3
CancelUpdateStatus(p) ==
  /\ pc[p] = "cn_update"
  /\ LET o == call[p].order
     IN  /\ ~OrderLocked(p, o)
         /\ tx' = [tx EXCEPT ![p].orders =
                     Override(@, [x \in {o} |->
                        Touched([ReadOrders(p)[o] EXCEPT !.status = "cancelled"])])]
  /\ Goto(p, "cn_items")
  /\ Log(p, "update_order")
  /\ UNCHANGED <<call, loc, result, calls>>
  /\ DbUnchanged

\* SELECT product_id, quantity FROM order_items WHERE order_id = $1
CancelSelectItems(p) ==
  /\ pc[p] = "cn_items"
  /\ LET rows == ReadItems(p)[call[p].order]
     IN  /\ loc' = [loc EXCEPT ![p].rows = rows, ![p].i = 1]
         /\ Goto(p, IF Len(rows) = 0 THEN "cn_commit" ELSE "cn_restore")
  /\ Log(p, "select_items")
  /\ UNCHANGED <<call, tx, result, calls>>
  /\ DbUnchanged

\* Mutant of StockAfterCancel: one unit is restored whatever the quantity.
StockAfterCancelOneUnit(current, quantity) == current + 1

\* UPDATE products SET stock_quantity = stock_quantity + $1 WHERE id = $2
StockAfterCancel(current, quantity) == current + quantity

CancelRestoreStock(p) ==
  /\ pc[p] = "cn_restore"
  /\ LET it == loc[p].rows[loc[p].i]
     IN  /\ ~StockLocked(p, it.product_id)
         /\ tx' = [tx EXCEPT ![p].stock =
                     Override(@, [x \in {it.product_id} |->
                        StockAfterCancel(ReadStock(p, it.product_id), it.quantity)])]
  /\ Goto(p, IF loc[p].i < Len(loc[p].rows) THEN "cn_restore" ELSE "cn_commit")
  /\ loc' = [loc EXCEPT ![p].i = @ + 1]
  /\ Log(p, "update_stock")
  /\ UNCHANGED <<call, result, calls>>
  /\ DbUnchanged

\* return True: the transaction commits
CancelCommit(p) ==
  /\ pc[p] = "cn_commit"
  /\ Commit(p, "ok")

\* ------------------------------------------- update_order (orders manager)
\* the identities that call update_order: the customer u2, a designer and
\* an admin (current_user.id, current_user.role)
Caller == [customer |-> "u2", designer |-> "d1", admin |-> "ad1"]

UpdateBegin(p) ==
  /\ CanStart(p)
  /\ \E o \in OrderIds, pt \in Patches, r \in Roles :
       call' = [call EXCEPT ![p] = [NoCall EXCEPT !.op = "update_order", !.order = o,
                                                  !.patch = pt, !.role = r,
                                                  !.user = Caller[r]]]
  /\ calls' = calls + 1
  /\ result' = [result EXCEPT ![p] = None]
  /\ Goto(p, "uo_select")
  /\ UNCHANGED <<loc, tx, stmts>>
  /\ DbUnchanged

PrivilegedFields == {"status", "payment_status", "priority", "tracking_number"}
PatchFields == PrivilegedFields \cup {"notes"}

\* Mutant of UpdateFields: the role is not looked at.
UpdateFieldsAnyRole(patch, role) == {f \in PatchFields : patch[f] # None}

\* "Build update fields": the columns update_order writes for a role
UpdateFields(patch, role) ==
  {f \in PatchFields :
     /\ patch[f] # None
     /\ f \in PrivilegedFields => role \in {"admin", "designer"}}

\* the row after SET <fields> = <patch values>
Patched(row, patch, fields) ==
  [f \in DOMAIN row |-> IF f \in fields THEN patch[f] ELSE row[f]]

\* SELECT * FROM orders WHERE id = $1, then the update fields are built
UpdateSelect(p) ==
  /\ pc[p] = "uo_select"
  /\ IF call[p].order \notin DOMAIN ReadOrders(p)
     THEN Rollback(p, "NotFoundError")
     ELSE /\ Goto(p, IF UpdateFields(call[p].patch, call[p].role) = {}
                     THEN "uo_readback" ELSE "uo_update")
          /\ Log(p, "select_order")
          /\ UNCHANGED <<call, loc, tx, result, calls>>
          /\ DbUnchanged

\* UPDATE orders SET ... WHERE id
UpdateWrite(p) ==
  /\ pc[p] = "uo_update"
  /\ LET o == call[p].order
     IN  /\ ~OrderLocked(p, o)
         /\ tx' = [tx EXCEPT ![p].orders =
                     Override(@, [x \in {o} |->
                        Touched(Patched(ReadOrders(p)[o], call[p].patch,
                                        UpdateFields(call[p].patch, call[p].role)))])]
  /\ Goto(p, "uo_readback")
  /\ Log(p, "update_order")
  /\ UNCHANGED <<call, loc, result, calls>>
  /\ DbUnchanged

\* get_order_by_id: the fields of the order row it returns that a patch
\* can write
OrderDetail(row) == [f \in PatchFields |-> row[f]]

\* return await self.get_order_by_id(order_id): a read on a connection of
\* its own, while the transaction is still open
UpdateReadback(p) ==
  /\ pc[p] = "uo_readback"
  /\ loc' = [loc EXCEPT ![p].detail = OrderDetail(orders[call[p].order])]
  /\ Goto(p, "uo_commit")
  /\ Log(p, "read_back")
  /\ UNCHANGED <<call, tx, result, calls>>
  /\ DbUnchanged

UpdateCommit(p) ==
  /\ pc[p] = "uo_commit"
  /\ Commit(p, "ok")

\* ------------------------------------ admin update_order and delete_order
\* Neither opens a transaction: each statement commits as it runs.  Both
\* catch every exception, their own NotFoundError and ValidationError
\* included, and raise APIException(500).
AdminUpdateBegin(p) ==
  /\ CanStart(p)
  /\ \E o \in OrderIds, pt \in Patches :
       call' = [call EXCEPT ![p] = [NoCall EXCEPT !.op = "admin_update_order",
                                                  !.order = o, !.patch = pt,
                                                  !.role = "admin"]]
  /\ calls' = calls + 1
  /\ result' = [result EXCEPT ![p] = None]
  /\ Goto(p, "au_select")
  /\ UNCHANGED <<loc, tx, stmts>>
  /\ DbUnchanged

AdminUpdateFields(patch) == {f \in PatchFields : patch[f] # None}

\* what leaves the handler: no transaction to roll back
Raise(p, err) ==
  /\ Return(p, err)
  /\ UNCHANGED calls
  /\ DbUnchanged

AdminUpdateSelect(p) ==
  /\ pc[p] = "au_select"
  /\ IF call[p].order \notin DOMAIN orders \/ AdminUpdateFields(call[p].patch) = {}
     THEN Raise(p, "APIException500")
     ELSE /\ Goto(p, "au_update")
          /\ Log(p, "select_order")
          /\ UNCHANGED <<call, loc, tx, result, calls>>
          /\ DbUnchanged

\* UPDATE orders SET ... WHERE id RETURNING *, then get_order_by_id
AdminUpdateWrite(p) ==
  /\ pc[p] = "au_update"
  /\ LET o == call[p].order
     IN  /\ ~OrderLocked(p, o)
         /\ orders' = [orders EXCEPT ![o] =
                         Touched(Patched(@, call[p].patch,
                                         AdminUpdateFields(call[p].patch)))]
  /\ Return(p, "ok")
  /\ UNCHANGED <<stock, used_count, order_items, cart_items, calls, sent, cart_ids,
               price, name, user_sessions>>

AdminDeleteBegin(p) ==
  /\ CanStart(p)
  /\ \E o \in OrderIds :
       call' = [call EXCEPT ![p] = [NoCall EXCEPT !.op = "admin_delete_order",
                                                  !.order = o, !.role = "admin"]]
  /\ calls' = calls + 1
  /\ result' = [result EXCEPT ![p] = None]
  /\ Goto(p, "ad_select")
  /\ UNCHANGED <<loc, tx, stmts>>
  /\ DbUnchanged

\* the statuses delete_order refuses
Undeletable == {"shipped", "delivered"}

\* SELECT id, status FROM orders WHERE id = $1, and the two checks
AdminDeleteSelect(p) ==
  /\ pc[p] = "ad_select"
  /\ IF call[p].order \notin DOMAIN orders
        \/ orders[call[p].order].status \in Undeletable
     THEN Raise(p, "APIException500")
     ELSE /\ Goto(p, "ad_update")
          /\ Log(p, "select_order")
          /\ UNCHANGED <<call, loc, tx, result, calls>>
          /\ DbUnchanged

\* UPDATE orders SET status = 'cancelled', updated_at = $1 WHERE id = $2
AdminDeleteWrite(p) ==
  /\ pc[p] = "ad_update"
  /\ LET o == call[p].order
     IN  /\ ~OrderLocked(p, o)
         /\ orders' = [orders EXCEPT ![o] = Touched([@ EXCEPT !.status = "cancelled"])]
  /\ Return(p, "ok")
  /\ UNCHANGED <<stock, used_count, order_items, cart_items, calls, sent, cart_ids,
               price, name, user_sessions>>

\* An exception that is no APIException inside the transaction (a lost
\* connection, a deadlock victim, a statement timeout): ROLLBACK, and the
\* handler raises APIException(500).
InTransaction(p) ==
  pc[p] \in {"co_address", "co_validate", "co_coupon", "co_coupon_update",
             "co_insert_order", "co_insert_item", "co_update_stock",
             "co_delete_cart", "co_commit",
             "cn_select", "cn_update", "cn_items", "cn_restore", "cn_commit",
             "uo_select", "uo_update", "uo_readback", "uo_commit"}

InfraFail(p) ==
  /\ InTransaction(p)
  /\ Rollback(p, "APIException500")

Next ==
  \E p \in Procs :
    \/ CreateBegin(p)
    \/ CreateAddresses(p)
    \/ CreateValidateItem(p)
    \/ CreateCouponSelect(p)
    \/ CreateCouponUpdate(p)
    \/ CreateInsertOrder(p)
    \/ CreateInsertItem(p)
    \/ CreateUpdateStock(p)
    \/ CreateDeleteCart(p)
    \/ CreateCommit(p)
    \/ CancelBegin(p)
    \/ CancelSelect(p)
    \/ CancelUpdateStatus(p)
    \/ CancelSelectItems(p)
    \/ CancelRestoreStock(p)
    \/ CancelCommit(p)
    \/ UpdateBegin(p)
    \/ UpdateSelect(p)
    \/ UpdateWrite(p)
    \/ UpdateReadback(p)
    \/ UpdateCommit(p)
    \/ AdminUpdateBegin(p)
    \/ AdminUpdateSelect(p)
    \/ AdminUpdateWrite(p)
    \/ AdminDeleteBegin(p)
    \/ AdminDeleteSelect(p)
    \/ AdminDeleteWrite(p)
    \/ InfraFail(p)

Spec == Init /\ [][Next]_vars

\* ------------------------------------------- catalog (admin products)
\* ProductUpdateRequest: the fields of the request that are not None
ProductPatches ==
  { [name |-> "jacket"], [price |-> 450000],
    [name |-> "jacket", price |-> 450000], [stock_quantity |-> 4] }

\* AdminProductManager.update_product: one UPDATE products SET ... WHERE
\* id = $n on a connection of its own, committed as it executes.
ProductUpdate(prod, patch) ==
  /\ calls < MaxCalls
  /\ calls' = calls + 1
  /\ name' = IF "name" \in DOMAIN patch
             THEN [name EXCEPT ![prod] = patch.name] ELSE name
  /\ price' = IF "price" \in DOMAIN patch
              THEN [price EXCEPT ![prod] = patch.price] ELSE price
  /\ stock' = IF "stock_quantity" \in DOMAIN patch
              THEN [stock EXCEPT ![prod] = patch.stock_quantity] ELSE stock
  /\ UNCHANGED <<used_count, orders, order_items, cart_items, pc, call, loc, tx,
                 stmts, result, sent, cart_ids, user_sessions>>

\* The order operations served one request at a time while an admin edits
\* the catalog.
CatalogNext ==
  \/ \E prod \in Products, patch \in ProductPatches : ProductUpdate(prod, patch)
  \/ \E p \in {"r1"} :
       \/ CreateBegin(p)
       \/ CreateAddresses(p)
       \/ CreateValidateItem(p)
       \/ CreateCouponSelect(p)
       \/ CreateCouponUpdate(p)
       \/ CreateInsertOrder(p)
       \/ CreateInsertItem(p)
       \/ CreateUpdateStock(p)
       \/ CreateDeleteCart(p)
       \/ CreateCommit(p)
       \/ CancelBegin(p)
       \/ CancelSelect(p)
       \/ CancelUpdateStatus(p)
       \/ CancelSelectItems(p)
       \/ CancelRestoreStock(p)
       \/ CancelCommit(p)
       \/ UpdateBegin(p)
       \/ UpdateSelect(p)
       \/ UpdateWrite(p)
       \/ UpdateReadback(p)
       \/ UpdateCommit(p)
       \/ InfraFail(p)

CatalogSpec == Init /\ [][CatalogNext]_vars

\* ------------------------------------------------ connection pool (db)
\* DatabaseSettings.max_pool_size is 20; the pool is scaled to the number
\* of requests the model runs at once.
max_pool_size == 2

\* the connections out of the pool: one per handler that is inside
\* 'async with db_manager.get_connection() as conn'
Acquired == Cardinality({q \in Procs : InTransaction(q)})

\* pool.acquire() returns a connection only while fewer than max_size are
\* out; it has no timeout, the caller waits until one is released
CanAcquire == Acquired < max_pool_size

PoolCreateBegin(p) == CanAcquire /\ CreateBegin(p)

PoolUpdateBegin(p) == CanAcquire /\ UpdateBegin(p)

\* get_order_by_id inside update_order's transaction: it acquires a second
\* connection while the handler keeps its own, and releases it on return
PoolUpdateReadback(p) == CanAcquire /\ UpdateReadback(p)

PoolNext ==
  \E p \in Procs :
    \/ PoolCreateBegin(p)
    \/ CreateAddresses(p)
    \/ CreateValidateItem(p)
    \/ CreateCouponSelect(p)
    \/ CreateCouponUpdate(p)
    \/ CreateInsertOrder(p)
    \/ CreateInsertItem(p)
    \/ CreateUpdateStock(p)
    \/ CreateDeleteCart(p)
    \/ CreateCommit(p)
    \/ PoolUpdateBegin(p)
    \/ UpdateSelect(p)
    \/ UpdateWrite(p)
    \/ PoolUpdateReadback(p)
    \/ UpdateCommit(p)
    \/ InfraFail(p)

PoolSpec == Init /\ [][PoolNext]_vars

\* ------------------------------------------------- refresh tokens (auth)
\* A refresh token is written as the jti of its payload; 0 is a string
\* that verify_token rejects or whose payload is no refresh token.  The
\* tokens a client can send are that one and every token issued so far.
NoToken == 0

IssuedTokens == {s.token_jti : s \in user_sessions}

\* create_refresh_token: the jti is a uuid4, a value no token has had
NewJti(ordinal) == Cardinality(InitSessions) + ordinal

\* SELECT id FROM user_sessions WHERE ... token_jti = $2 AND is_revoked =
\* false AND expires_at > CURRENT_TIMESTAMP (no token expires within a run)
LiveSessions(jti) == {s \in user_sessions : s.token_jti = jti /\ ~s.is_revoked}

\* UPDATE user_sessions SET is_revoked = true WHERE token_jti = $1
Revoked(jti) ==
  {IF s.token_jti = jti THEN [s EXCEPT !.is_revoked = TRUE] ELSE s : s \in user_sessions}

AuthUnchanged ==
  UNCHANGED <<stock, used_count, orders, order_items, cart_items, sent, cart_ids,
               price, name>>

\* what leaves the auth handler; each statement already committed
AuthReturn(p, r) ==
  /\ Return(p, r)
  /\ UNCHANGED <<calls, user_sessions>>
  /\ AuthUnchanged

RefreshBegin(p) ==
  /\ CanStart(p)
  /\ \E t \in IssuedTokens \cup {NoToken} :
       call' = [call EXCEPT ![p] = [NoCall EXCEPT !.op = "refresh_access_token",
                                                  !.refresh_token = t]]
  /\ loc' = [loc EXCEPT ![p].new_jti = NewJti(calls + 1)]
  /\ calls' = calls + 1
  /\ Goto(p, "rt_verify")
  /\ UNCHANGED <<tx, stmts, result, user_sessions>>
  /\ AuthUnchanged

\* verify_token and the check of the payload's type
RefreshVerify(p) ==
  /\ pc[p] = "rt_verify"
  /\ IF call[p].refresh_token = NoToken
     THEN AuthReturn(p, "UnauthorizedException")
     ELSE /\ Goto(p, "rt_select")
          /\ UNCHANGED <<call, loc, tx, stmts, result, calls, user_sessions>>
          /\ AuthUnchanged

\* "Check if refresh token exists in database"; the token's user is found
\* (no operation deletes users) and the new tokens are created
RefreshSelect(p) ==
  /\ pc[p] = "rt_select"
  /\ IF LiveSessions(call[p].refresh_token) = {}
     THEN AuthReturn(p, "UnauthorizedException")
     ELSE /\ Goto(p, "rt_revoke")
          /\ UNCHANGED <<call, loc, tx, stmts, result, calls, user_sessions>>
          /\ AuthUnchanged

\* _revoke_refresh_token(payload.get("jti"))
RefreshRevoke(p) ==
  /\ pc[p] = "rt_revoke"
  /\ user_sessions' = Revoked(call[p].refresh_token)
  /\ Goto(p, "rt_store")
  /\ UNCHANGED <<call, loc, tx, stmts, result, calls>>
  /\ AuthUnchanged

\* _store_refresh_token(user_id, new_refresh_token), then the TokenResponse
\* is returned
RefreshStore(p) ==
  /\ pc[p] = "rt_store"
  /\ LET old == CHOOSE s \in user_sessions : s.token_jti = call[p].refresh_token
     IN  user_sessions' = user_sessions \cup
           {[token_jti |-> loc[p].new_jti, is_revoked |-> FALSE, login |-> old.login]}
  /\ Return(p, "ok")
  /\ UNCHANGED calls
  /\ AuthUnchanged

LogoutBegin(p) ==
  /\ CanStart(p)
  /\ \E t \in IssuedTokens \cup {NoToken} :
       call' = [call EXCEPT ![p] = [NoCall EXCEPT !.op = "logout_user",
                                                  !.refresh_token = t]]
  /\ calls' = calls + 1
  /\ Goto(p, "lo_revoke")
  /\ UNCHANGED <<loc, tx, stmts, result, user_sessions>>
  /\ AuthUnchanged

\* logout_user: revoke the token's jti if the token verifies; return True
LogoutRevoke(p) ==
  /\ pc[p] = "lo_revoke"
  /\ user_sessions' = IF call[p].refresh_token = NoToken THEN user_sessions
                      ELSE Revoked(call[p].refresh_token)
  /\ Return(p, "ok")
  /\ UNCHANGED calls
  /\ AuthUnchanged

\* A statement fails (lost connection, timeout): refresh_access_token
\* re-raises, logout_user returns False; what was written stays.
AuthFail(p) ==
  /\ pc[p] \in {"rt_select", "rt_revoke", "rt_store", "lo_revoke"}
  /\ AuthReturn(p, IF call[p].op = "logout_user" THEN "False" ELSE "Exception")

AuthNext ==
  \E p \in Procs :
    \/ RefreshBegin(p)
    \/ RefreshVerify(p)
    \/ RefreshSelect(p)
    \/ RefreshRevoke(p)
    \/ RefreshStore(p)
    \/ LogoutBegin(p)
    \/ LogoutRevoke(p)
    \/ AuthFail(p)

AuthSpec == Init /\ [][AuthNext]_vars

\* ------------------------------------------------------- cart (router)
\* The cart handlers open no transaction: each statement commits as it
\* runs.  An HTTPException leaves the handler as it is.

\* The CartItemCreate payloads the clients send.
CartItems ==
  { CartItemCreate("p1", 1, None, None),
    CartItemCreate("p1", 2, None, None),
    CartItemCreate("p1", 1, "M", "blue"),
    CartItemCreate("p2", 1, "M", "blue"),
    CartItemCreate("p2", 2, None, "blue"),
    CartItemCreate("p3", 1, "M", None) }

\* The item ids and quantities update_cart_item and remove_from_cart are sent.
ItemIds == 1..3
Quantities == {2, 3}

\* column = $n in a WHERE clause: never true of a NULL
SqlEq(column, value) == column # None /\ value # None /\ column = value

AddBegin(p) ==
  /\ CanStart(p)
  /\ \E u \in Users, ci \in CartItems :
       call' = [call EXCEPT ![p] = [NoCall EXCEPT !.op = "add_to_cart", !.user = u,
                                                  !.cart_item = ci]]
  /\ calls' = calls + 1
  /\ result' = [result EXCEPT ![p] = None]
  /\ Goto(p, "ac_product")
  /\ UNCHANGED <<loc, tx, stmts>>
  /\ DbUnchanged

\* SELECT ... FROM products WHERE id = $1 AND is_active = true, and the
\* check of the stock against the quantity being added
AddSelectProduct(p) ==
  /\ pc[p] = "ac_product"
  /\ LET ci == call[p].cart_item
     IN  IF ~IsActive[ci.product_id]
         THEN Raise(p, "HTTP404")
         ELSE IF stock[ci.product_id] < ci.quantity
         THEN Raise(p, "HTTP400")
         ELSE /\ loc' = [loc EXCEPT ![p].stock_quantity = stock[ci.product_id]]
              /\ Goto(p, "ac_existing")
              /\ UNCHANGED <<call, tx, stmts, result, calls>>
              /\ DbUnchanged

\* SELECT id, quantity FROM cart_items WHERE user_id = $1 AND
\* product_id = $2 AND size = $3 AND color = $4
ExistingItems(u, ci) ==
  {c \in cart_items :
     /\ c.user_id = u
     /\ c.product_id = ci.product_id
     /\ SqlEq(c.size, ci.size)
     /\ SqlEq(c.color, ci.color)}

\* the SELECT of the existing item and the check of the summed quantity
AddSelectExisting(p) ==
  /\ pc[p] = "ac_existing"
  /\ LET ci == call[p].cart_item
         found == ExistingItems(call[p].user, ci)
     IN  IF found = {}
         THEN /\ Goto(p, "ac_insert")
              /\ UNCHANGED <<call, loc, tx, stmts, result, calls>>
              /\ DbUnchanged
         ELSE \E existing_item \in found :
                LET new_quantity == existing_item.quantity + ci.quantity
                IN  IF loc[p].stock_quantity < new_quantity
                    THEN Raise(p, "HTTP400")
                    ELSE /\ loc' = [loc EXCEPT ![p].existing_id = existing_item.id,
                                               ![p].new_quantity = new_quantity]
                         /\ Goto(p, "ac_update")
                         /\ UNCHANGED <<call, tx, stmts, result, calls>>
                         /\ DbUnchanged

\* UPDATE cart_items SET quantity = $1, updated_at = $2 WHERE id = $3
SetQuantity(rows, id, quantity) ==
  {IF c.id = id THEN [c EXCEPT !.quantity = quantity] ELSE c : c \in rows}

AddUpdate(p) ==
  /\ pc[p] = "ac_update"
  /\ cart_items' = SetQuantity(cart_items, loc[p].existing_id, loc[p].new_quantity)
  /\ Return(p, "ok")
  /\ UNCHANGED <<stock, used_count, orders, order_items, calls, sent, cart_ids,
               price, name, user_sessions>>

\* INSERT INTO cart_items (...) with id = str(uuid.uuid4())
AddInsert(p) ==
  /\ pc[p] = "ac_insert"
  /\ LET ci == call[p].cart_item
     IN  cart_items' = cart_items \cup
           {[id |-> cart_ids + 1, user_id |-> call[p].user,
             product_id |-> ci.product_id, quantity |-> ci.quantity,
             size |-> ci.size, color |-> ci.color]}
  /\ cart_ids' = cart_ids + 1
  /\ Return(p, "ok")
  /\ UNCHANGED <<stock, used_count, orders, order_items, calls, sent,
                 price, name, user_sessions>>

UpdateItemBegin(p) ==
  /\ CanStart(p)
  /\ \E u \in Users, id \in ItemIds, q \in Quantities :
       call' = [call EXCEPT ![p] = [NoCall EXCEPT !.op = "update_cart_item",
                                     !.user = u, !.item_id = id, !.quantity = q]]
  /\ calls' = calls + 1
  /\ result' = [result EXCEPT ![p] = None]
  /\ Goto(p, "uc_select")
  /\ UNCHANGED <<loc, tx, stmts>>
  /\ DbUnchanged

\* Mutant of OwnItems: the row is looked up by its id alone.
AnyItems(u, id) == {c \in cart_items : c.id = id}

\* SELECT ... FROM cart_items ci JOIN products p ON ci.product_id = p.id
\* WHERE ci.id = $1 AND ci.user_id = $2
OwnItems(u, id) == {c \in cart_items : c.id = id /\ c.user_id = u}

\* the SELECT of the caller's item and the check of the stock
UpdateItemSelect(p) ==
  /\ pc[p] = "uc_select"
  /\ LET found == OwnItems(call[p].user, call[p].item_id)
     IN  IF found = {}
         THEN Raise(p, "HTTP404")
         ELSE IF \E c \in found : stock[c.product_id] < call[p].quantity
         THEN Raise(p, "HTTP400")
         ELSE /\ Goto(p, "uc_update")
              /\ UNCHANGED <<call, loc, tx, stmts, result, calls>>
              /\ DbUnchanged

\* UPDATE cart_items SET quantity = $1, updated_at = $2 WHERE id = $3
UpdateItemWrite(p) ==
  /\ pc[p] = "uc_update"
  /\ cart_items' = SetQuantity(cart_items, call[p].item_id, call[p].quantity)
  /\ Return(p, "ok")
  /\ UNCHANGED <<stock, used_count, orders, order_items, calls, sent, cart_ids,
               price, name, user_sessions>>

RemoveBegin(p) ==
  /\ CanStart(p)
  /\ \E u \in Users, id \in ItemIds :
       call' = [call EXCEPT ![p] = [NoCall EXCEPT !.op = "remove_from_cart",
                                     !.user = u, !.item_id = id]]
  /\ calls' = calls + 1
  /\ result' = [result EXCEPT ![p] = None]
  /\ Goto(p, "rc_select")
  /\ UNCHANGED <<loc, tx, stmts>>
  /\ DbUnchanged

\* the SELECT of the caller's item
RemoveSelect(p) ==
  /\ pc[p] = "rc_select"
  /\ IF OwnItems(call[p].user, call[p].item_id) = {}
     THEN Raise(p, "HTTP404")
     ELSE /\ Goto(p, "rc_delete")
          /\ UNCHANGED <<call, loc, tx, stmts, result, calls>>
          /\ DbUnchanged

\* DELETE FROM cart_items WHERE id = $1
RemoveDelete(p) ==
  /\ pc[p] = "rc_delete"
  /\ cart_items' = {c \in cart_items : c.id # call[p].item_id}
  /\ Return(p, "ok")
  /\ UNCHANGED <<stock, used_count, orders, order_items, calls, sent, cart_ids,
               price, name, user_sessions>>

ClearBegin(p) ==
  /\ CanStart(p)
  /\ \E u \in Users :
       call' = [call EXCEPT ![p] = [NoCall EXCEPT !.op = "clear_cart", !.user = u]]
  /\ calls' = calls + 1
  /\ result' = [result EXCEPT ![p] = None]
  /\ Goto(p, "cc_delete")
  /\ UNCHANGED <<loc, tx, stmts>>
  /\ DbUnchanged

\* DELETE FROM cart_items WHERE user_id = $1
ClearDelete(p) ==
  /\ pc[p] = "cc_delete"
  /\ cart_items' = {c \in cart_items : c.user_id # call[p].user}
  /\ Return(p, "ok")
  /\ UNCHANGED <<stock, used_count, orders, order_items, calls, sent, cart_ids,
               price, name, user_sessions>>

GetCartBegin(p) ==
  /\ CanStart(p)
  /\ \E u \in Users :
       call' = [call EXCEPT ![p] = [NoCall EXCEPT !.op = "get_user_cart", !.user = u]]
  /\ calls' = calls + 1
  /\ result' = [result EXCEPT ![p] = None]
  /\ Goto(p, "gc_select")
  /\ UNCHANGED <<loc, tx, stmts>>
  /\ DbUnchanged

RECURSIVE CartSubtotal(_)
\* sum(item['price'] * item['quantity'] for item in cart_items)
CartSubtotal(rows) ==
  IF rows = {} THEN 0
  ELSE LET c == CHOOSE x \in rows : TRUE
       IN  price[c.product_id] * c.quantity + CartSubtotal(rows \ {c})

\* the country calculate_shipping_cost reads from the empty dict:
\* shipping_address.get('country', '')
NoCountry == ""

\* the totals get_user_cart returns
CartEstimate(rows) ==
  LET subtotal == CartSubtotal(rows)
      estimated_tax == calculate_tax(subtotal)
      estimated_shipping == calculate_shipping_cost(subtotal, NoCountry)
  IN  [subtotal |-> subtotal, estimated_tax |-> estimated_tax,
       estimated_shipping |-> estimated_shipping,
       estimated_total |-> subtotal + estimated_tax + estimated_shipping]

\* get_user_cart: the SELECT of the user's rows and the totals
GetCartSelect(p) ==
  /\ pc[p] = "gc_select"
  /\ loc' = [loc EXCEPT ![p].estimate =
               CartEstimate({c \in cart_items : c.user_id = call[p].user})]
  /\ Goto(p, "gc_return")
  /\ UNCHANGED <<call, tx, stmts, result, calls>>
  /\ DbUnchanged

GetCartReturn(p) ==
  /\ pc[p] = "gc_return"
  /\ Raise(p, "ok")

\* An exception that is no HTTPException in a cart handler (a lost
\* connection): the handler raises HTTPException(500); what a statement
\* has written stays.
InCartHandler(p) ==
  pc[p] \in {"ac_product", "ac_existing", "ac_update", "ac_insert",
             "uc_select", "uc_update", "rc_select", "rc_delete", "cc_delete"}

CartFail(p) ==
  /\ InCartHandler(p)
  /\ Raise(p, "HTTP500")

CartNext ==
  \E p \in Procs :
    \/ AddBegin(p)
    \/ AddSelectProduct(p)
    \/ AddSelectExisting(p)
    \/ AddUpdate(p)
    \/ AddInsert(p)
    \/ UpdateItemBegin(p)
    \/ UpdateItemSelect(p)
    \/ UpdateItemWrite(p)
    \/ RemoveBegin(p)
    \/ RemoveSelect(p)
    \/ RemoveDelete(p)
    \/ ClearBegin(p)
    \/ ClearDelete(p)
    \/ GetCartBegin(p)
    \/ GetCartSelect(p)
    \/ GetCartReturn(p)
    \/ CartFail(p)

CartSpec == Init /\ [][CartNext]_vars

\* ================================================================ claims
RECURSIVE Qty(_, _)
\* the quantity of product prod on a sequence of lines or order_items rows
Qty(rows, prod) ==
  IF rows = <<>> THEN 0
  ELSE (IF Head(rows).product_id = prod THEN Head(rows).quantity ELSE 0)
       + Qty(Tail(rows), prod)

RECURSIVE SumSubtotal(_)
SumSubtotal(rows) ==
  IF rows = <<>> THEN 0 ELSE Head(rows).subtotal + SumSubtotal(Tail(rows))

\* request p takes the step
Acts(p) ==
  pc'[p] # pc[p] \/ loc'[p] # loc[p] \/ tx'[p] # tx[p] \/ stmts'[p] # stmts[p]

DbSame ==
  /\ stock' = stock
  /\ used_count' = used_count
  /\ orders' = orders
  /\ order_items' = order_items
  /\ cart_items' = cart_items

\* C1: under any interleaving of create_order calls no product's
\* stock_quantity drops below 0 (no overselling).
C1_NoOversell == \A prod \in Products : stock[prod] >= 0

\* C2: a coupon's used_count never exceeds its usage_limit.
C2_CouponLimit ==
  \A c \in CouponCodes :
    Coupons[c].usage_limit # 0 => used_count[c] <= Coupons[c].usage_limit

\* what the commit of a create_order adds to the tables, in one step
C3_CommitEffects(p) ==
  LET o == loc[p].order_id
      r == call[p].req
  IN  /\ o \notin DOMAIN orders
      /\ o \in DOMAIN orders'
      /\ Len(order_items'[o]) = Len(r.items)
      /\ \A prod \in Products : stock'[prod] = stock[prod] - Qty(r.items, prod)
      /\ \A c \in CouponCodes :
           used_count'[c] = used_count[c] + (IF c = r.coupon_code THEN 1 ELSE 0)
      /\ cart_items' = {c \in cart_items : c.user_id # call[p].user}

\* every order a request can see has all its item rows
C3_NoPartialOrder ==
  /\ DOMAIN order_items = DOMAIN orders
  /\ \A o \in DOMAIN orders :
       /\ Len(order_items[o]) > 0
       /\ SumSubtotal(order_items[o]) = orders[o].subtotal

\* C3: create_order is all-or-nothing.  Every step of a create_order call
\* leaves the committed tables as they are, except its commit, which adds
\* the order, all its item rows, the stock decrements, the coupon use and
\* the cart delete in one step; so a call that fails has changed nothing,
\* and every order another request can see has all its item rows.
C3_AllOrNothing ==
  /\ []C3_NoPartialOrder
  /\ [][\A p \in Procs :
          (call[p].op = "create_order" /\ Acts(p)) =>
             \/ DbSame
             \/ (pc[p] = "co_commit" /\ result'[p] = "ok" /\ C3_CommitEffects(p))]_vars

\* a call has failed after another one committed an order, and the tables
\* hold that order alone
C3_Witness ==
  \E p \in Procs :
    /\ result[p] \in {"ValidationError", "APIException500"}
    /\ calls = 2
    /\ \A q \in Procs : pc[q] = "idle"
    /\ DOMAIN orders = {1}
    /\ \A prod \in Products : stock[prod] = InitStock[prod] - Qty(order_items[1], prod)

\* C4: every persisted order has
\* total = subtotal + tax_amount + shipping_amount - discount_amount.
C4_TotalIdentity ==
  \A o \in DOMAIN orders :
    orders[o].total = orders[o].subtotal + orders[o].tax_amount
                      + orders[o].shipping_amount - orders[o].discount_amount

\* an order with a discount, a shipping cost and a tax is persisted
C4_Witness ==
  \E o \in DOMAIN orders :
    /\ orders[o].discount_amount > 0
    /\ orders[o].shipping_amount > 0
    /\ orders[o].tax_amount > 0

\* C5: every persisted order has subtotal, tax, shipping, discount and
\* total >= 0 and discount <= subtotal.
C5_AmountsNonNegative ==
  \A o \in DOMAIN orders :
    /\ orders[o].subtotal >= 0
    /\ orders[o].tax_amount >= 0
    /\ orders[o].shipping_amount >= 0
    /\ orders[o].discount_amount >= 0
    /\ orders[o].total >= 0
    /\ orders[o].discount_amount <= orders[o].subtotal

\* C6: a successful create_order decrements each product's stock by the
\* quantity ordered, once per order: the commit of a request that is a
\* retry of a request already answered with an order leaves stock as it is.
C6_ExactlyOnce ==
  [][\A p \in Procs :
       (call[p].op = "create_order" /\ pc[p] = "co_commit" /\ result'[p] = "ok") =>
          IF call[p].retry
          THEN stock' = stock
          ELSE \A prod \in Products :
                 stock'[prod] = stock[prod] - Qty(call[p].req.items, prod)]_vars

\* C7: cancel_order goes on to its UPDATE only from pending or confirmed;
\* on the caller's order in any other status it raises ConflictError and
\* the tables are unchanged; and it returns True only by committing.
C7_CancelOnlyPendingConfirmed ==
  [][\A p \in Procs :
       /\ (pc[p] = "cn_select" /\ Acts(p) /\ result'[p] # "APIException500"
           /\ call[p].order \in DOMAIN orders
           /\ orders[call[p].order].user_id = call[p].user) =>
             IF orders[call[p].order].status \in {"pending", "confirmed"}
             THEN pc'[p] = "cn_update"
             ELSE result'[p] = "ConflictError" /\ pc'[p] = "idle" /\ DbSame
       /\ (pc'[p] = "cn_update") => (pc[p] \in {"cn_select", "cn_update"})
       /\ (call[p].op = "cancel_order" /\ result'[p] = "ok") => pc[p] = "cn_commit"
    ]_vars

\* a cancel_order was refused on an order past confirmed
C7_Witness ==
  \E p \in Procs :
    /\ result[p] = "ConflictError"
    /\ \E o \in DOMAIN orders : orders[o].status \in {"processing", "shipped", "delivered", "refunded"}

\* C8: a successful cancel_order adds back to every product's stock exactly
\* the quantities a create_order took for the order's lines, in the step
\* that sets the status to cancelled, and no other step of cancel_order
\* changes the tables; create_order followed by cancel_order leaves stock
\* where it started.
C8_CancelInverse ==
  /\ [][\A p \in Procs :
          /\ (call[p].op = "create_order" /\ pc[p] = "co_commit" /\ result'[p] = "ok") =>
               \A prod \in Products :
                 stock'[prod] = stock[prod] - Qty(order_items'[loc[p].order_id], prod)
          /\ (call[p].op = "cancel_order" /\ Acts(p)) =>
               IF pc[p] = "cn_commit" /\ result'[p] = "ok"
               THEN /\ orders'[call[p].order].status = "cancelled"
                    /\ \A prod \in Products :
                         stock'[prod] = stock[prod] + Qty(order_items[call[p].order], prod)
               ELSE DbSame
       ]_vars
  /\ [](\A p \in Procs :
          (calls = 2 /\ pc[p] = "cn_commit") =>
             \A prod \in Products : ReadStock(p, prod) = InitStock[prod])

\* an order of two units was created and then cancelled, and the stock is
\* back at its first value
C8_Witness ==
  \E p \in Procs :
    /\ calls = 2
    /\ result[p] = "ok"
    /\ \A q \in Procs : pc[q] = "idle"
    /\ DOMAIN orders = {1}
    /\ orders[1].status = "cancelled"
    /\ Qty(order_items[1], "p1") = 2
    /\ stock = InitStock

\* the phase of create_order a statement belongs to
Phase(s) ==
  CASE s = "select_address" -> 0
    [] s = "select_product" -> 1
    [] s \in {"select_coupon", "update_coupon"} -> 2
    [] s = "insert_order" -> 3
    [] s = "insert_item" -> 4
    [] s = "update_stock" -> 5
    [] OTHER -> 6

RECURSIVE Repeat(_, _)
Repeat(s, n) == IF n = 0 THEN <<>> ELSE s \o Repeat(s, n - 1)

\* the statements of a create_order that runs to its commit
ExpectedStatements(r) ==
  (IF r.shipping_address_id # None THEN <<"select_address">> ELSE <<>>)
  \o Repeat(<<"select_product">>, Len(r.items))
  \o (IF r.coupon_code # None THEN <<"select_coupon", "update_coupon">> ELSE <<>>)
  \o <<"insert_order">>
  \o Repeat(<<"insert_item", "update_stock">>, Len(r.items))
  \o <<"delete_cart">>

IsPrefix(s, t) == Len(s) <= Len(t) /\ \A i \in 1..Len(s) : s[i] = t[i]

Chain == <<"pending", "confirmed", "processing", "shipped", "delivered">>
Terminal == {"delivered", "cancelled", "refunded"}

Transition(a, b) ==
  \/ \E i \in 1..(Len(Chain) - 1) : a = Chain[i] /\ b = Chain[i + 1]
  \/ b \in {"cancelled", "refunded"}

\* C10: an order starts pending/pending, and every change of its status
\* follows pending -> confirmed -> processing -> shipped -> delivered, or
\* goes to cancelled or refunded; a terminal status is never left for a
\* non-terminal one.
C10_StateMachine ==
  [][\A o \in DOMAIN orders' :
       IF o \notin DOMAIN orders
       THEN orders'[o].status = "pending" /\ orders'[o].payment_status = "pending"
       ELSE orders'[o].status # orders[o].status =>
              /\ Transition(orders[o].status, orders'[o].status)
              /\ (orders[o].status \in Terminal => orders'[o].status \in Terminal)
    ]_vars

\* C11: a successful create_order deletes every cart row of the ordering
\* user, whatever its product, and no row of another user; a create_order
\* that fails, and every step before the commit, leaves the cart as it is.
C11_CartCleared ==
  [][\A p \in Procs :
       (call[p].op = "create_order" /\ Acts(p)) =>
          IF pc[p] = "co_commit" /\ result'[p] = "ok"
          THEN cart_items' = {c \in cart_items : c.user_id # call[p].user}
          ELSE cart_items' = cart_items]_vars

\* u2 has ordered p1 alone: its cart row of p2 is gone and u1's row is there
C11_Witness ==
  \E o \in DOMAIN orders :
    /\ orders[o].user_id = "u2"
    /\ Qty(order_items[o], "p2") = 0
    /\ cart_items = {c \in InitCart : c.user_id = "u1"}
    /\ \A q \in Procs : pc[q] = "idle"

\* the cart rows of a user with the (product, size, color) key of a
\* payload, an absent size or color being a value of the key like any other
KeyRows(rows, u, ci) ==
  {c \in rows : /\ c.user_id = u
                /\ c.product_id = ci.product_id
                /\ c.size = ci.size
                /\ c.color = ci.color}

RECURSIVE SumQuantity(_)
SumQuantity(rows) ==
  IF rows = {} THEN 0
  ELSE LET c == CHOOSE x \in rows : TRUE
       IN  c.quantity + SumQuantity(rows \ {c})

\* the step in which an add_to_cart call returns success
AddSucceeds(p) == call[p].op = "add_to_cart" /\ result'[p] = "ok"

\* C12: there is at most one cart row per (user, product, size, color)
\* key, absent size or color included, and an add_to_cart that succeeds
\* leaves one row for its key whose quantity is the quantity the key had in
\* the cart plus the quantity added.
C12_OneRowPerKey ==
  /\ [](\A c, d \in cart_items :
          (c.user_id = d.user_id /\ c.product_id = d.product_id
           /\ c.size = d.size /\ c.color = d.color) => c = d)
  /\ [][\A p \in Procs :
          AddSucceeds(p) =>
            LET before == KeyRows(cart_items, call[p].user, call[p].cart_item)
                after == KeyRows(cart_items', call[p].user, call[p].cart_item)
            IN  /\ Cardinality(after) = 1
                /\ SumQuantity(after) = SumQuantity(before) + call[p].cart_item.quantity
       ]_vars

\* C13: add_to_cart succeeds only if the product is active and its stock
\* is at least the quantity the cart holds for the key plus the quantity
\* added; an add_to_cart that fails leaves the cart as it is.
C13_CumulativeStock ==
  [][\A p \in Procs :
       (call[p].op = "add_to_cart" /\ Acts(p) /\ pc'[p] = "idle") =>
          IF result'[p] = "ok"
          THEN LET ci == call[p].cart_item
               IN  /\ IsActive[ci.product_id]
                   /\ stock[ci.product_id] >=
                        SumQuantity(KeyRows(cart_items, call[p].user, ci)) + ci.quantity
          ELSE cart_items' = cart_items
    ]_vars

CartOps == {"add_to_cart", "update_cart_item", "remove_from_cart", "clear_cart"}

\* C14: no step of a cart operation creates, changes or deletes a cart row
\* of a user other than the caller, and update_cart_item or
\* remove_from_cart given an item id that is no row of the caller ends with
\* a 404 and changes nothing.
C14_OwnRowsOnly ==
  [][\A p \in Procs :
       (call[p].op \in CartOps /\ Acts(p)) =>
          /\ {c \in cart_items' : c.user_id # call[p].user}
               = {c \in cart_items : c.user_id # call[p].user}
          /\ (/\ pc[p] \in {"uc_select", "rc_select"}
              /\ result'[p] # "HTTP500"
              /\ ~\E c \in cart_items : c.id = call[p].item_id /\ c.user_id = call[p].user)
             => (result'[p] = "HTTP404" /\ pc'[p] = "idle" /\ cart_items' = cart_items)
    ]_vars

\* u1 was refused the item of u2, which is still in the cart, after
\* changing a row of its own
C14_Witness ==
  /\ result["r1"] = "ok"
  /\ result["r2"] = "HTTP404"
  /\ \A q \in Procs : pc[q] = "idle"
  /\ \E c \in cart_items : c.id = 1 /\ c.user_id = "u1" /\ c.quantity = 2
  /\ \E c \in cart_items : c.id = 2 /\ c.user_id = "u2"

\* the shipping cost of the claim: 0 without an address, else 0 from a
\* subtotal of 100.00, else by country
ShippingRule(subtotal, address_id) ==
  IF address_id = None THEN 0
  ELSE IF subtotal >= 1000000 THEN 0
  ELSE CASE Addresses[address_id].country = "us" -> 50000
         [] Addresses[address_id].country \in {"ca", "mx"} -> 75000
         [] OTHER -> 125000

\* C19: shipping is 0 when the address is empty or absent, else 0 from a
\* pre-discount subtotal of 100.00, else 5.00 (US), 7.50 (Canada, Mexico)
\* or 12.50 (elsewhere), in the persisted orders and in the cart estimate,
\* which has no address.
C19_ShippingRule ==
  /\ \A o \in DOMAIN orders :
       orders[o].shipping_amount =
         ShippingRule(orders[o].subtotal, orders[o].shipping_address_id)
  /\ \A p \in Procs :
       pc[p] = "gc_return" =>
         loc[p].estimate.estimated_shipping = ShippingRule(loc[p].estimate.subtotal, None)

\* C15: no step of an update_order called with role customer changes an
\* order's status, payment_status, priority or tracking_number, and what a
\* role other than admin or designer changes is notes (and updated_at).
C15_CustomerWritesNotesOnly ==
  [][\A p \in Procs :
       (call[p].op = "update_order" /\ call[p].role \notin {"admin", "designer"}
        /\ Acts(p)) =>
          /\ DOMAIN orders' = DOMAIN orders
          /\ \A o \in DOMAIN orders :
               \A f \in DOMAIN orders[o] \ {"notes", "updated_at"} :
                 orders'[o][f] = orders[o][f]
    ]_vars

\* a customer sent a patch of all five fields and only its notes are in
\* the order
C15_Witness ==
  \E o \in DOMAIN orders :
    /\ orders[o].notes = "n2"
    /\ orders[o].status = "pending"
    /\ orders[o].tracking_number = None
    /\ orders[o].updated_at = 1
    /\ \A q \in Procs : pc[q] = "idle"

\* C16: update_order of an order id that does not exist raises
\* NotFoundError and changes nothing; with no applicable field in the
\* patch no step changes the tables and the call returns; otherwise the
\* commit writes the applicable fields, keeps every other field and every
\* other order, and refreshes updated_at.
C16_UpdateFrame ==
  [][\A p \in Procs :
       (call[p].op = "update_order" /\ Acts(p) /\ result'[p] # "APIException500") =>
          LET o == call[p].order
              fields == UpdateFields(call[p].patch, call[p].role)
          IN  /\ (pc[p] = "uo_select" /\ o \notin DOMAIN orders) =>
                   (result'[p] = "NotFoundError" /\ DbSame)
              /\ (pc[p] = "uo_select" /\ o \in DOMAIN orders) => result'[p] = None
              /\ (pc[p] # "uo_commit" \/ fields = {}) => DbSame
              /\ pc[p] = "uo_commit" => result'[p] = "ok"
              /\ (pc[p] = "uo_commit" /\ fields # {}) =>
                   /\ DOMAIN orders' = DOMAIN orders
                   /\ \A x \in DOMAIN orders \ {o} : orders'[x] = orders[x]
                   /\ \A f \in fields : orders'[o][f] = call[p].patch[f]
                   /\ \A f \in DOMAIN orders[o] \ (fields \cup {"updated_at"}) :
                        orders'[o][f] = orders[o][f]
                   /\ orders'[o].updated_at > orders[o].updated_at
    ]_vars

\* a customer's patch of the status alone has reached its return with
\* nothing to write
C16_Witness ==
  \E p \in Procs :
    /\ pc[p] = "uo_commit"
    /\ call[p].role = "customer"
    /\ call[p].patch.status = "shipped"
    /\ call[p].patch.notes = None
    /\ call[p].order \in DOMAIN orders
    /\ tx[p] = NoTx

\* C17: admin delete_order of an order that is shipped or delivered raises
\* ValidationError and changes nothing; of an order in another status it
\* sets the status to cancelled and leaves every product's stock as it is.
C17_AdminDelete ==
  [][\A p \in Procs :
       (call[p].op = "admin_delete_order" /\ Acts(p)
        /\ call[p].order \in DOMAIN orders) =>
          LET o == call[p].order
          IN  IF pc[p] = "ad_select"
              THEN IF orders[o].status \in {"shipped", "delivered"}
                   THEN result'[p] = "ValidationError" /\ DbSame
                   ELSE pc'[p] = "ad_update" /\ DbSame
              ELSE /\ orders'[o].status = "cancelled"
                   /\ stock' = stock
    ]_vars

\* C18: the shipping_address_id and billing_address_id of every persisted
\* order, when not null, are addresses of the order's user; a create_order
\* given a shipping or billing address id that does not exist or is another
\* user's raises ValidationError at the address check and creates no order.
C18_OwnAddresses ==
  /\ [](\A o \in DOMAIN orders :
          /\ orders[o].shipping_address_id # None =>
               UserAddressOk(orders[o].user_id, orders[o].shipping_address_id)
          /\ orders[o].billing_address_id # None =>
               UserAddressOk(orders[o].user_id, orders[o].billing_address_id))
  /\ [][\A p \in Procs :
          (pc[p] = "co_address" /\ Acts(p) /\ result'[p] # "APIException500"
           /\ \E a \in {call[p].req.shipping_address_id, call[p].req.billing_address_id} :
                a # None /\ ~UserAddressOk(call[p].user, a)) =>
             (result'[p] = "ValidationError" /\ DbSame)
       ]_vars

\* 8% of a base that is not negative, rounded half-up to the cent
HalfUpTax(base) == 100 * ((base * 8 + 5000) \div 10000)

\* C20: the tax of every persisted order is 8% of subtotal minus discount,
\* rounded half-up to 2 decimal places, and is not negative; subtotal
\* 120.00 gives tax 9.60 and total 129.60, and subtotal 40.00 with a fixed
\* 10.00 coupon and a US address gives shipping 5.00, tax 2.40, total 37.40.
C20_TaxHalfUp ==
  /\ calculate_tax(1200000) = 96000
  /\ OrderTotal(1200000, calculate_tax(1200000), 0, 0) = 1296000
  /\ LET row == OrderRow("u1", OrderCreate(<<Line("p1", 1)>>, "a1", None, "FIX10"),
                         400000, 100000)
     IN  row.shipping_amount = 50000 /\ row.tax_amount = 24000 /\ row.total = 374000
  /\ \A o \in DOMAIN orders :
       /\ orders[o].tax_amount >= 0
       /\ orders[o].subtotal >= orders[o].discount_amount =>
            orders[o].tax_amount = HalfUpTax(orders[o].subtotal - orders[o].discount_amount)

\* the discount of the claim for a coupon row and a subtotal
ClaimedDiscount(c, subtotal) ==
  IF c.discount_type = "percentage"
  THEN LET d == (subtotal * c.discount_value) \div 100
       IN  IF c.max_discount_amount # 0 /\ d > c.max_discount_amount
           THEN c.max_discount_amount ELSE d
  ELSE IF c.discount_value < subtotal THEN c.discount_value ELSE subtotal

\* the code matches an active, non-expired coupon under its usage limit
Redeemable(code) ==
  /\ code \in CouponCodes
  /\ Coupons[code].live
  /\ Coupons[code].usage_limit = 0 \/ used_count[code] < Coupons[code].usage_limit

\* C21: the coupon step of create_order raises ValidationError and changes
\* nothing when the code matches no redeemable coupon or the subtotal is
\* below the coupon's minimum; otherwise the discount is subtotal*value/100
\* capped at max_discount_amount (percentage) or min(value, subtotal)
\* (fixed); used_count changes only at the commit of an order, by 1 for
\* the coupon the order used.
C21_CouponEvaluation ==
  [][\A p \in Procs :
       (call[p].op = "create_order" /\ Acts(p)) =>
          LET code == call[p].req.coupon_code
          IN  /\ (pc[p] = "co_coupon" /\ result'[p] # "APIException500") =>
                   IF \/ ~Redeemable(code)
                      \/ loc[p].subtotal < Coupons[code].min_order_amount
                   THEN result'[p] = "ValidationError" /\ DbSame
                   ELSE /\ pc'[p] = "co_coupon_update"
                        /\ loc'[p].discount = ClaimedDiscount(Coupons[code], loc[p].subtotal)
              /\ IF pc[p] = "co_commit" /\ result'[p] = "ok"
                 THEN \A k \in CouponCodes :
                        used_count'[k] = used_count[k] + (IF k = code THEN 1 ELSE 0)
                 ELSE used_count' = used_count
    ]_vars

\* an order that used the capped percentage coupon is committed with the
\* cap as its discount
C21_Witness ==
  \E o \in DOMAIN orders :
    /\ orders[o].subtotal = 1000000
    /\ orders[o].discount_amount = 250000
    /\ used_count["PCT50"] = 1

\* C22: item validation fails with NotFoundError for a product that is
\* absent or inactive and with an error of another kind, about the stock,
\* for a product whose stock is less than the quantity of the line.
C22_ErrorKinds ==
  [][\A p \in Procs :
       (pc[p] = "co_validate" /\ Acts(p) /\ result'[p] # "APIException500") =>
          LET it == call[p].req.items[loc[p].i]
          IN  IF ~IsActive[it.product_id]
              THEN result'[p] = "NotFoundError"
              ELSE stock[it.product_id] < it.quantity =>
                     result'[p] \in {"ValidationError", "InsufficientStock"}
    ]_vars

\* the item list names a product on more than one line
RepeatsProduct(its) ==
  \E i, j \in 1..Len(its) : i # j /\ its[i].product_id = its[j].product_id

\* C24: a create_order on its own whose lines repeat a product commits
\* only if the stock covers the sum of the quantities of that product's
\* lines, and leaves no stock below 0.
C24_RepeatedLines ==
  [][\A p \in Procs :
       (call[p].op = "create_order" /\ pc[p] = "co_commit" /\ result'[p] = "ok"
        /\ calls = 1 /\ RepeatsProduct(call[p].req.items)) =>
          \A prod \in Products :
            /\ stock[prod] >= Qty(call[p].req.items, prod)
            /\ stock'[prod] >= 0
    ]_vars

\* C25: stock is restored at most once per order: no product's stock ever
\* exceeds the stock the catalog started with, which a second restoration
\* of one order's quantities would make it do.
C25_RestoreOnce == \A prod \in Products : stock[prod] <= InitStock[prod]

\* C26: cancel_order never commits the status cancelled and the stock
\* restoration over a committed status of processing, shipped or delivered.
C26_CancelRespectsStatus ==
  [][\A p \in Procs :
       (call[p].op = "cancel_order" /\ pc[p] = "cn_commit" /\ result'[p] = "ok") =>
          orders[call[p].order].status \notin {"processing", "shipped", "delivered"}
    ]_vars

\* C27: the order detail a successful update_order is about to return
\* holds, for every field the call wrote, the value it wrote.
C27_DetailReflectsWrite ==
  \A p \in Procs :
    pc[p] = "uo_commit" =>
      \A f \in UpdateFields(call[p].patch, call[p].role) :
        loc[p].detail[f] = call[p].patch[f]

\* C29: no step of an update_order called by a customer changes an order
\* of another user.
C29_CustomerOwnOrders ==
  [][\A p \in Procs :
       (call[p].op = "update_order" /\ call[p].role = "customer" /\ Acts(p)) =>
          \A o \in DOMAIN orders :
            orders'[o] # orders[o] => orders[o].user_id = call[p].user
    ]_vars

\* C23: an order's item rows, as committed, hold for each line the price
\* read at that line's validation and a subtotal of that price times the
\* quantity, and the order's subtotal is the sum of the rows' subtotals; no
\* step of any operation (product update, update_order, cancel_order, a
\* later create_order) changes the item rows of an existing order.
C23_FrozenSnapshot ==
  [][/\ \A o \in DOMAIN order_items :
          o \in DOMAIN order_items' /\ order_items'[o] = order_items[o]
     /\ \A p \in Procs :
          (call[p].op = "create_order" /\ pc[p] = "co_commit" /\ result'[p] = "ok") =>
             LET o == loc[p].order_id
                 its == call[p].req.items
                 rows == order_items'[o]
             IN  /\ o \notin DOMAIN order_items
                 /\ Len(rows) = Len(its)
                 /\ \A i \in 1..Len(its) :
                      /\ rows[i].product_id = its[i].product_id
                      /\ rows[i].quantity = its[i].quantity
                      /\ rows[i].product_price = loc[p].items_data[i].price
                      /\ rows[i].product_name = loc[p].items_data[i].name
                      /\ rows[i].subtotal = rows[i].product_price * rows[i].quantity
                 /\ orders'[o].subtotal = SumSubtotal(rows)
    ]_vars

\* a cancelled order keeps an item row whose price and name are no longer
\* those of the catalog
C23_Witness ==
  \E o \in DOMAIN order_items :
    /\ orders[o].status = "cancelled"
    /\ \E i \in 1..Len(order_items[o]) :
         LET row == order_items[o][i]
         IN  /\ row.product_price # price[row.product_id]
             /\ row.product_name # name[row.product_id]
             /\ row.subtotal = row.product_price * row.quantity

\* C28: the pool is never in the state where every connection is out and
\* each is held by an update_order that waits to acquire another one for
\* its read-back.
C28_NoPoolDeadlock ==
  ~ /\ Acquired = max_pool_size
    /\ \A p \in Procs :
         InTransaction(p) => call[p].op = "update_order" /\ pc[p] = "uo_readback"

\* C30: at any time at most one session that is not revoked descends from
\* one login: a refresh token that was redeemed, by a refresh that ran
\* before or at the same time, or that was logged out, yields no second
\* live session.
C30_RedeemOnce ==
  \A s1, s2 \in user_sessions :
    (s1.login = s2.login /\ ~s1.is_revoked /\ ~s2.is_revoked) => s1 = s2

====
